---- MODULE Spec2Model ----
(***************************************************************************)
(* Model of the qwc-admin-gui controllers:                                 *)
(*   ResourcesController (src/controllers/resources_controller.py)         *)
(*   ThemesController    (src/controllers/themes_controller.py)            *)
(*                                                                         *)
(* Strings that the code orders or splits (resource names, theme urls)     *)
(* are sequences of code points, so that sorted(), ORDER BY and            *)
(* split("/")[-1] are computed and not assumed.                            *)
(***************************************************************************)
EXTENDS Integers, Sequences, FiniteSets, TLC

VARIABLES
    resources,       \* rows of the resources table: [id, type, name, parent_id]
    next_id,         \* next value of the resources primary-key sequence
    permissions,     \* rows of the permissions table: [id, resource_id]
    resource_types,  \* resource_types table: type name -> list_order
    themesconfig,    \* ThemesController.themesconfig (document held in memory)
                     \* of the controller that handles the current request
    idle_themesconfig, \* themesconfig of the controller of another process
    themesfile,      \* content of themesConfig.json on disk
    response         \* outcome of the last request handled

vars == <<resources, next_id, permissions, resource_types,
          themesconfig, idle_themesconfig, themesfile, response>>

(***************************************************************************)
(* Bounds                                                                  *)
(***************************************************************************)
\* largest primary key the resources sequence hands out (resource handlers)
MaxId == 4
\* longest list of names the config generator answers with
MaxResp == 2
\* most resources in a forest the hierarchy view is computed for
MaxNodes == 3
\* most rows of the resources table the list is computed for
MaxRows == 3
\* largest page number and page size requested
MaxPage == 3
MaxPerPage == 2
\* most theme items and most theme groups of the themes document, and the
\* largest primary key handed out to a map resource of a theme
MaxItems == 2
MaxGroups == 1
MaxMapId == 2
\* longest item list and most groups of the documents that items and groups
\* are moved in
MaxLen == 3
MaxMoveGroups == 2

(***************************************************************************)
(* Values                                                                  *)
(***************************************************************************)
\* parent_id of a root resource (NULL; the form sends 0 for "no parent")
None == 0

\* code point of "/"
Slash == 47

\* resource names: "ab", "b"
Names == {<<97, 98>>, <<98>>}

TypeNames == {"map", "layer"}

\* code points of a resource type name, as ORDER BY Resource.type compares it
TypeChars(t) ==
    IF t = "map" THEN <<109, 97, 112>> ELSE <<108, 97, 121, 101, 114>>

Min(a, b) == IF a < b THEN a ELSE b

(***************************************************************************)
(* String comparison: code point by code point, a proper prefix first      *)
(***************************************************************************)
LexLess(a, b) ==
    \E k \in 1..Len(b) :
        /\ k <= Len(a) + 1
        /\ \A i \in 1..(k - 1) : a[i] = b[i]
        /\ (k = Len(a) + 1 \/ a[k] < b[k])

\* sorted(list(S)) for a set S of strings
RECURSIVE sorted(_)
sorted_desc(S) ==
    IF S = {} THEN <<>>
    ELSE LET m == CHOOSE x \in S : \A y \in S \ {x} : LexLess(y, x)
         IN  <<m>> \o sorted(S \ {m})
sorted(S) ==
    IF S = {} THEN <<>>
    ELSE LET m == CHOOSE x \in S : \A y \in S \ {x} : LexLess(x, y)
         IN  <<m>> \o sorted(S \ {m})

\* set(list)
set(s) == {s[i] : i \in 1..Len(s)}

\* sequences over S of length at most n
SeqUpTo(S, n) == UNION {[1..k -> S] : k \in 0..n}

(***************************************************************************)
(* Resources table                                                         *)
(***************************************************************************)
Ids(rows) == {r.id : r \in rows}

\* session.query(Resource).filter_by(id=id).first()
find_resource(id, rows) ==
    IF id \in Ids(rows) THEN CHOOSE r \in rows : r.id = id ELSE None

\* Resource.children: the rows whose parent_id is the resource
children(r, rows) == {c \in rows : c.parent_id = r.id}

\* ids below id in the parent_id relation, by iteration to a fixpoint
RECURSIVE Closure(_, _)
Closure(S, rows) ==
    LET T == S \cup {c.id : c \in {x \in rows : x.parent_id \in S}}
    IN  IF T = S THEN S ELSE Closure(T, rows)

Descendants(id, rows) ==
    Closure({c.id : c \in {x \in rows : x.parent_id = id}}, rows)

Subtree(id, rows) == {id} \cup Descendants(id, rows)

\* the resource is its own descendant
OnCycle(id, rows) == id \in Descendants(id, rows)

\* ids above id in the parent_id relation
Ancestors(id, rows) == {a \in Ids(rows) : id \in Descendants(a, rows)}

\* the upward walk from id comes to a resource without parent
ReachesRoot(id, rows) ==
    /\ ~OnCycle(id, rows)
    /\ \A a \in Ancestors(id, rows) : ~OnCycle(a, rows)

Acyclic(rows) == \A r \in rows : ~OnCycle(r.id, rows)

(***************************************************************************)
(* destroy_resource_cascaded: the ids staged for deletion, children first  *)
(***************************************************************************)
RECURSIVE destroy_resource_cascaded(_, _)
destroy_resource_shallow(resource, rows) ==
    {c.id : c \in children(resource, rows)} \cup {resource.id}
destroy_resource_cascaded(resource, rows) ==
    UNION {destroy_resource_cascaded(child, rows) :
               child \in children(resource, rows)}
      \cup {resource.id}

\* abort(code): the request ends with the status and nothing else
abort_redirect(op, id, code) == [op |-> op, id |-> id, status |-> 302]
abort(op, id, code) == [op |-> op, id |-> id, status |-> code]

\* request.form.get('_method', request.method).upper(): form_method is <<>>
\* without the form field, else <<value>>
upper(method) ==
    CASE method = "delete" -> "DELETE" [] method = "post" -> "POST"
      [] OTHER -> method

effective_method(form_method, request_method) ==
    upper(IF form_method # <<>> THEN form_method[1] ELSE request_method)

\* destroy_casacaded(id): method is the effective request method, db_ok
\* tells whether the database accepts the commit
destroy_casacaded(id, method, db_ok) ==
    LET resource == find_resource(id, resources) IN
    /\ UNCHANGED <<next_id, permissions, resource_types,
                   themesconfig, themesfile>>
    /\ IF method # "DELETE" THEN
           /\ response' = abort("destroy_casacaded", id, 405)
                             @@ [method |-> method]
           /\ UNCHANGED resources
       ELSE IF id \notin Ids(resources) THEN
           /\ response' = abort("destroy_casacaded", id, 404)
                             @@ [method |-> method]
           /\ UNCHANGED resources
       ELSE IF OnCycle(id, resources) \/ ~db_ok THEN
           \* RecursionError, or a database error that reaches the except
           \* clauses: InternalError and IntegrityError are not imported
           \* by the module, the request fails
           /\ response' = [op |-> "destroy_casacaded", id |-> id,
                           method |-> method, status |-> 500]
           /\ UNCHANGED resources
       ELSE
           /\ resources' = {r \in resources :
                  r.id \notin destroy_resource_cascaded(resource, resources)}
           /\ response' = [op |-> "destroy_casacaded", id |-> id,
                           method |-> method,
                           status |-> 302, flash |-> "success",
                           deleted |-> destroy_resource_cascaded(resource,
                                                                 resources),
                           location |-> IF resource.parent_id # None
                                        THEN <<"hierarchy", resource.parent_id>>
                                        ELSE <<"resources">>]
    /\ UNCHANGED idle_themesconfig

(***************************************************************************)
(* create_or_update_resources: the row the form data is applied to         *)
(***************************************************************************)
create_or_update_resources(id, form) ==
    [id        |-> id,
     type      |-> form.type,
     name      |-> form.name,
     parent_id |-> IF form.parent_id # None /\ form.parent_id > 0
                   THEN form.parent_id ELSE None]

\* ResourceForm data: the type choices are the resource types, the parent
\* choices are 0 and the existing resources (create_form)
Forms(rows) ==
    [type : TypeNames, name : Names, parent_id : {0} \cup Ids(rows)]

\* POST of the create form: a new row gets the next primary key
create_resource(form) ==
    /\ next_id <= MaxId
    /\ resources' = resources \cup {create_or_update_resources(next_id, form)}
    /\ next_id' = next_id + 1
    /\ response' = [op |-> "create_resource", id |-> next_id, status |-> 302]
    /\ UNCHANGED <<permissions, resource_types, themesconfig, themesfile>>
    /\ UNCHANGED idle_themesconfig

\* POST of the edit form of an existing resource
update_resource(id, form) ==
    /\ id \in Ids(resources)
    /\ resources' = {r \in resources : r.id # id}
                      \cup {create_or_update_resources(id, form)}
    /\ response' = [op |-> "update_resource", id |-> id, status |-> 302]
    /\ UNCHANGED <<next_id, permissions, resource_types,
                   themesconfig, themesfile>>
    /\ UNCHANGED idle_themesconfig

(***************************************************************************)
(* ORDER BY: a row's sort key is the list of its column values, each as a  *)
(* string of code points (a number is a string of one code point)          *)
(***************************************************************************)
KeyLess(k1, k2) ==
    \E i \in 1..Len(k1) :
        /\ \A j \in 1..(i - 1) : k1[j] = k2[j]
        /\ LexLess(k1[i], k2[i])

\* the first column descending (.desc()), the others ascending
KeyLessDesc(k1, k2) ==
    \/ LexLess(k2[1], k1[1])
    \/ k1[1] = k2[1] /\ KeyLess(Tail(k1), Tail(k2))

\* rows in the order of key[row]; desc: the first column is descending
RECURSIVE order_by(_, _, _)
order_by(rows, key, desc) ==
    IF rows = {} THEN <<>>
    ELSE LET m == CHOOSE x \in rows :
                      \A y \in rows \ {x} :
                          IF desc THEN KeyLessDesc(key[x], key[y])
                          ELSE KeyLess(key[x], key[y])
         IN  <<m>> \o order_by(rows \ {m}, key, desc)

\* ResourceType.list_order, Resource.type, Resource.name, Resource.id
default_order_name_first(r) ==
    <<r.name, <<resource_types[r.type]>>, TypeChars(r.type), <<r.id>>>>
default_order(r) ==
    <<<<resource_types[r.type]>>, TypeChars(r.type), r.name, <<r.id>>>>

(***************************************************************************)
(* hierarchy and collect_resources                                         *)
(***************************************************************************)
\* the walk  root = resource; while root.parent is not None: root = parent
RECURSIVE root_of(_, _)
root_of_self(resource, rows) == resource
root_of(resource, rows) ==
    IF resource.parent_id \in Ids(rows)
    THEN root_of(find_resource(resource.parent_id, rows), rows)
    ELSE resource

\* query of Permission rows of the resource: count() > 0
has_permissions(resource) ==
    Cardinality({p \in permissions : p.resource_id = resource.id}) > 0

\* the children of the resource in the order of the query
sorted_children(resource, rows) ==
    order_by({c \in rows : c.parent_id = resource.id},
             [c \in rows |-> default_order(c)], FALSE)

\* the records collect_resources appends to items
RECURSIVE collect_resources(_, _, _), collect_children(_, _, _)
collect_resources_flat(resource, depth, rows) ==
    <<[depth       |-> depth,
       resource    |-> resource,
       permissions |-> has_permissions(resource)]>>
      \o collect_children(sorted_children(resource, rows), depth, rows)
collect_resources(resource, depth, rows) ==
    <<[depth       |-> depth,
       resource    |-> resource,
       permissions |-> has_permissions(resource)]>>
      \o collect_children(sorted_children(resource, rows), depth + 1, rows)
collect_children(cs, depth, rows) ==
    IF cs = <<>> THEN <<>>
    ELSE collect_resources(Head(cs), depth, rows)
           \o collect_children(Tail(cs), depth, rows)

hierarchy(id) ==
    /\ UNCHANGED <<resources, next_id, permissions, resource_types,
                   themesconfig, themesfile>>
    /\ IF id \notin Ids(resources) THEN
           response' = abort("hierarchy", id, 404)
       ELSE IF ~ReachesRoot(id, resources) THEN
           \* the upward walk runs round a cycle and the request never ends
           response' = [op |-> "hierarchy", id |-> id, status |-> 0]
       ELSE
           response' =
               [op |-> "hierarchy", id |-> id, status |-> 200,
                items |-> collect_resources(
                              root_of(find_resource(id, resources), resources),
                              0, resources)]
    /\ UNCHANGED idle_themesconfig

(***************************************************************************)
(* index: the filtered, sorted and paginated list of resources             *)
(***************************************************************************)
\* lower case of a code point, as ILIKE folds it
Lower(c) == IF c \in 65..90 THEN c + 32 ELSE c

\* the characters of a LIKE pattern that do not stand for themselves: '%'
\* (any string), '_' (any one character) and the escape character '\'
Percent == 37
Underscore == 95
Backslash == 92

\* s LIKE p, case-insensitive: the pattern is matched against the whole
\* string
RECURSIVE like(_, _)
like(s, p) ==
    IF p = <<>> THEN s = <<>>
    ELSE IF p[1] = Percent
    THEN like(s, Tail(p)) \/ (s # <<>> /\ like(Tail(s), p))
    ELSE IF p[1] = Underscore
    THEN s # <<>> /\ like(Tail(s), Tail(p))
    ELSE IF p[1] = Backslash /\ Len(p) >= 2
    THEN /\ s # <<>>
         /\ Lower(s[1]) = Lower(p[2])
         /\ like(Tail(s), Tail(Tail(p)))
    ELSE /\ s # <<>>
         /\ Lower(s[1]) = Lower(p[1])
         /\ like(Tail(s), Tail(p))

\* Resource.name.ilike("%%%s%%" % search_text): the search text is put
\* into the pattern as it is
ilike(name, text) == like(name, <<Percent>> \o text \o <<Percent>>)

\* resources_for_index_query: the rows of the query; search_text is a
\* string, resource_type is <<>> (no filter) or <<type>>
resources_for_index_query(search_text, resource_type, rows) ==
    {r \in rows :
        /\ r.type \in DOMAIN resource_types
        /\ search_text # <<>> => ilike(r.name, search_text)
        /\ resource_type # <<>> => r.type = resource_type[1]}

\* order_by_criterion: the sort key of a row for the sort argument, <<>>
\* for a column that is not sortable
order_by_criterion(sort, r) ==
    IF sort = "id" THEN <<<<r.id>>>>
    ELSE IF sort = "type" THEN <<TypeChars(r.type), r.name, <<r.id>>>>
    ELSE IF sort = "name" THEN
        <<r.name, <<resource_types[r.type]>>, TypeChars(r.type), <<r.id>>>>
    ELSE <<>>

SortableColumns == {"id", "type", "name"}

\* the rows of the query in its order; sort is <<>> (no sort argument) or
\* <<column>>
ordered_query(search_text, resource_type, sort, sort_asc, rows) ==
    LET found == resources_for_index_query(search_text, resource_type, rows)
    IN  IF sort # <<>> /\ sort[1] \in SortableColumns
        THEN order_by(found,
                      [r \in found |-> order_by_criterion(sort[1], r)],
                      ~sort_asc)
        ELSE order_by(found, [r \in found |-> default_order(r)], FALSE)

\* math.ceil(count / per_page)
num_pages_floor(count, per_page) == count \div per_page
num_pages(count, per_page) ==
    IF count % per_page = 0 THEN count \div per_page
    ELSE count \div per_page + 1

\* query.limit(n), query.offset(n)
limit(q, n) == SubSeq(q, 1, Min(n, Len(q)))
offset(q, n) == SubSeq(q, n + 1, Len(q))

\* query.limit(per_page).offset((page - 1) * per_page).all()
paginate_next(q, page, per_page) == limit(offset(q, page * per_page), per_page)
paginate(q, page, per_page) ==
    limit(offset(q, (page - 1) * per_page), per_page)

index(search_text, resource_type, sort, sort_asc, page, per_page) ==
    LET query == ordered_query(search_text, resource_type, sort, sort_asc,
                               resources)
    IN
    /\ response' =
           [op |-> "index", status |-> 200,
            resources |-> paginate(query, page, per_page),
            page |-> page,
            num_pages |-> num_pages(Len(query), per_page),
            per_page |-> per_page,
            search |-> search_text,
            type |-> resource_type,
            sort |-> sort,
            sort_asc |-> sort_asc]
    /\ UNCHANGED <<resources, next_id, permissions, resource_types,
                   themesconfig, themesfile>>
    /\ UNCHANGED idle_themesconfig

(***************************************************************************)
(* Import of maps and layers from the config generator                     *)
(***************************************************************************)
\* sorted(list(set(from_config) - set(existing)))
new_names_all(from_config, existing) == sorted(set(from_config))
new_names(from_config, existing) ==
    sorted(set(from_config) \ existing)

\* the rows added for a sorted list of names: session.add in list order,
\* so the primary keys follow the order of the list
added_rows(names, type, parent_id, first_id) ==
    {[id |-> first_id + i - 1, type |-> type, name |-> names[i],
      parent_id |-> parent_id] : i \in 1..Len(names)}

\* names of the rows of type 'map'
map_names(rows) == {r.name : r \in {x \in rows : x.type = "map"}}

\* names of the rows of type 'layer' below the map
layer_names_any(map_resource, rows) ==
    {r.name : r \in {x \in rows : x.type = "layer"}}
layer_names(map_resource, rows) ==
    {r.name : r \in {x \in rows : x.type = "layer"
                                   /\ x.parent_id = map_resource.id}}

\* session.add of every staged row and one session.commit(): the database
\* takes all staged rows or, when it refuses the commit, none; a commit
\* after every add would leave the rows added before the refusal
commit_each(rows, staged, db_ok) ==
    IF db_ok THEN rows \cup staged
    ELSE rows \cup {r \in staged : \A o \in staged : r.id <= o.id}
commit(rows, staged, db_ok) == IF db_ok THEN rows \cup staged ELSE rows

\* import_maps: url_defined, status_ok, json_ok and db_ok are what the
\* configuration, the config generator and the database answer
import_maps(url_defined, status_ok, json_ok, maps_from_config, db_ok) ==
    LET new_maps == new_names(maps_from_config, map_names(resources)) IN
    /\ next_id + Len(new_maps) - 1 <= MaxId
    /\ UNCHANGED <<permissions, resource_types, themesconfig, themesfile>>
    /\ IF ~url_defined \/ ~status_ok \/ ~json_ok THEN
           /\ response' = [op |-> "import_maps", status |-> 302,
                           flash |-> "error", from_config |-> <<>>,
                           answer |-> <<url_defined, status_ok, json_ok,
                                        db_ok>>,
                           location |-> <<"resources">>]
           /\ UNCHANGED <<resources, next_id>>
       ELSE IF new_maps # <<>> /\ ~db_ok THEN
           \* the commit raises
           /\ resources' = commit(resources,
                                  added_rows(new_maps, "map", None, next_id),
                                  db_ok)
           /\ response' = [op |-> "import_maps", status |-> 302,
                           flash |-> "error",
                           from_config |-> maps_from_config,
                           answer |-> <<url_defined, status_ok, json_ok,
                                        db_ok>>,
                           location |-> <<"resources">>]
           /\ UNCHANGED next_id
       ELSE IF new_maps # <<>> THEN
           /\ resources' = commit(resources,
                                  added_rows(new_maps, "map", None, next_id),
                                  db_ok)
           /\ next_id' = next_id + Len(new_maps)
           /\ response' = [op |-> "import_maps", status |-> 302,
                           flash |-> "success", count |-> Len(new_maps),
                           from_config |-> maps_from_config,
                           staged |-> new_maps,
                           answer |-> <<url_defined, status_ok, json_ok,
                                        db_ok>>,
                           location |-> <<"resources", "map">>]
       ELSE
           /\ response' = [op |-> "import_maps", status |-> 302,
                           flash |-> "info",
                           from_config |-> maps_from_config,
                           staged |-> new_maps,
                           answer |-> <<url_defined, status_ok, json_ok,
                                        db_ok>>,
                           location |-> <<"resources", "map">>]
           /\ UNCHANGED <<resources, next_id>>
    /\ UNCHANGED idle_themesconfig

\* import_children(id) with import_layers for a map
import_children(id, url_defined, status_ok, json_ok, layers, db_ok) ==
    LET layers_from_config == layers
        resource   == find_resource(id, resources)
        new_layers == new_names(layers_from_config,
                                layer_names(resource, resources))
        staged     == id \in Ids(resources) /\ url_defined
                      /\ resource.type = "map" /\ status_ok /\ json_ok
                      /\ new_layers # <<>>
        added      == staged /\ db_ok
    IN
    /\ added => next_id + Len(new_layers) - 1 <= MaxId
    /\ UNCHANGED <<permissions, resource_types, themesconfig, themesfile>>
    /\ IF id \notin Ids(resources) THEN
           /\ response' = abort("import_children", id, 404)
           /\ UNCHANGED <<resources, next_id>>
       ELSE
           /\ resources' = IF staged
                           THEN commit(resources,
                                       added_rows(new_layers, "layer",
                                                  resource.id, next_id),
                                       db_ok)
                           ELSE resources
           /\ next_id' = IF added THEN next_id + Len(new_layers) ELSE next_id
           /\ response' =
                  [op |-> "import_children", id |-> id, status |-> 302,
                   from_config |-> layers_from_config,
                   staged |-> IF added THEN new_layers ELSE <<>>,
                   answer |-> <<url_defined, status_ok, json_ok, db_ok>>,
                   flash |->
                       IF ~url_defined THEN "error"
                       ELSE IF resource.type # "map" THEN "warning"
                       ELSE IF ~status_ok \/ ~json_ok THEN "error"
                       ELSE IF layers_from_config = <<>> THEN "warning"
                       ELSE IF new_layers = <<>> THEN "info"
                       ELSE IF ~db_ok THEN "error"
                       ELSE "success",
                   location |-> <<"hierarchy", id>>]
    /\ UNCHANGED idle_themesconfig

(***************************************************************************)
(* Python lists: indexes count from 0, a negative index counts from the    *)
(* end, an index outside the list raises IndexError                        *)
(***************************************************************************)
InRange(list, i) == i < Len(list) /\ i >= 0 - Len(list)

\* position in the sequence of the list index i
At(list, i) == IF i >= 0 THEN i + 1 ELSE Len(list) + i + 1

\* list[i], list[j] = list[j], list[i]
swap(list, i, j) ==
    [k \in 1..Len(list) |->
        IF k = At(list, j) THEN list[At(list, i)]
        ELSE IF k = At(list, i) THEN list[At(list, j)]
        ELSE list[k]]

\* list.pop(i); list.pop() removes the last element
pop_last(list, i) == SubSeq(list, 1, Len(list) - 1)
pop(list, i) ==
    SubSeq(list, 1, At(list, i) - 1) \o SubSeq(list, At(list, i) + 1, Len(list))

\* list[i] = value
put(list, i, value) == [list EXCEPT ![At(list, i)] = value]

(***************************************************************************)
(* Themes document: [items, groups], a group is [title, items], an item    *)
(* is [url, title]; a title <<>> is an item without title.  The other      *)
(* fields of an item are copied from the form and take no part here.       *)
(***************************************************************************)
\* url.split("/")[-1]
basename(url) ==
    LET slashes == {i \in 1..Len(url) : url[i] = Slash}
        last    == IF slashes = {} THEN 0
                   ELSE CHOOSE i \in slashes : \A j \in slashes : j <= i
    IN  SubSeq(url, last + 1, Len(url))

\* the item list addressed by gid: <<>> is themes.items, <<g>> the items
\* of group g
has_items(doc, gid) == gid = <<>> \/ InRange(doc.groups, gid[1])

items_of(doc, gid) ==
    IF gid = <<>> THEN doc.items ELSE doc.groups[At(doc.groups, gid[1])].items

with_items(doc, gid, items) ==
    IF gid = <<>> THEN [doc EXCEPT !.items = items]
    ELSE [doc EXCEPT !.groups[At(doc.groups, gid[1])].items = items]

\* all theme items of the document with their place: <<gid, position>>
Places(doc) ==
    {<<<<>>, i>> : i \in 1..Len(doc.items)}
      \cup UNION {{<<<<g - 1>>, i>> : i \in 1..Len(doc.groups[g].items)} :
                      g \in 1..Len(doc.groups)}

item_at(doc, place) == items_of(doc, place[1])[place[2]]

\* find_theme: <<>> when there is no such item, else <<item>>
find_theme(doc, tid, gid) ==
    IF has_items(doc, gid) /\ tid < Len(items_of(doc, gid))
    THEN <<items_of(doc, gid)[tid + 1]>> ELSE <<>>

\* ThemeForm.validate_on_submit: url is required
validate_on_submit(form) == form.url # <<>>

\* the item create_or_update_theme builds from the form
form_item(form) == [url |-> form.url, title |-> form.title]

(***************************************************************************)
(* move_theme and move_theme_group                                         *)
(***************************************************************************)
\* the swaps of move_theme on an item list: [error, list]
move_items_unguarded(direction, tid, items) ==
    IF direction = "up" /\ tid >= 0 THEN
        IF InRange(items, tid)
        THEN [error |-> FALSE, list |-> swap(items, tid - 1, tid)]
        ELSE [error |-> TRUE, list |-> items]
    ELSE IF direction = "down" /\ Len(items) - 1 > tid THEN
        [error |-> FALSE, list |-> swap(items, tid, tid - 1)]
    ELSE [error |-> FALSE, list |-> items]
move_items(direction, tid, items) ==
    IF direction = "up" /\ tid > 0 THEN
        IF InRange(items, tid)
        THEN [error |-> FALSE, list |-> swap(items, tid - 1, tid)]
        ELSE [error |-> TRUE, list |-> items]
    ELSE IF direction = "down" /\ Len(items) - 1 > tid THEN
        [error |-> FALSE, list |-> swap(items, tid, tid - 1)]
    ELSE [error |-> FALSE, list |-> items]

\* the swaps of move_theme_group on the list of groups: [error, list]
move_groups(direction, gid, groups) ==
    IF direction = "up" /\ gid > 1 THEN
        IF InRange(groups, gid)
        THEN [error |-> FALSE, list |-> swap(groups, gid - 1, gid)]
        ELSE [error |-> TRUE, list |-> groups]
    ELSE IF direction = "down" /\ Len(groups) > gid THEN
        [error |-> FALSE, list |-> swap(groups, gid, gid - 1)]
    ELSE [error |-> FALSE, list |-> groups]

\* save_themesconfig writes the whole document held in memory; a save
\* that kept what the file holds of the groups would not
save_themesconfig_keep_groups(doc) ==
    themesfile' = [doc EXCEPT !.groups = IF Len(themesfile.groups) > Len(@)
                                         THEN themesfile.groups ELSE @]
save_themesconfig(doc) == themesfile' = doc

move_theme(direction, tid, gid) ==
    LET moved == move_items(direction, tid, items_of(themesconfig, gid)) IN
    /\ UNCHANGED <<resources, next_id, permissions, resource_types>>
    /\ IF ~has_items(themesconfig, gid) \/ moved.error THEN
           \* IndexError
           /\ response' = [op |-> "move_theme", status |-> 500,
                           direction |-> direction, tid |-> tid, gid |-> gid]
           /\ UNCHANGED <<themesconfig, themesfile>>
       ELSE
           /\ themesconfig' = with_items(themesconfig, gid, moved.list)
           /\ save_themesconfig(themesconfig')
           /\ response' = [op |-> "move_theme", status |-> 302,
                           direction |-> direction, tid |-> tid, gid |-> gid]
    /\ UNCHANGED idle_themesconfig

move_theme_group(gid, direction) ==
    LET moved == move_groups(direction, gid, themesconfig.groups) IN
    /\ UNCHANGED <<resources, next_id, permissions, resource_types>>
    /\ IF moved.error THEN
           \* IndexError
           /\ response' = [op |-> "move_theme_group", status |-> 500,
                           direction |-> direction, gid |-> gid]
           /\ UNCHANGED <<themesconfig, themesfile>>
       ELSE
           /\ themesconfig' = [themesconfig EXCEPT !.groups = moved.list]
           /\ save_themesconfig(themesconfig')
           /\ response' = [op |-> "move_theme_group", status |-> 302,
                           direction |-> direction, gid |-> gid]
    /\ UNCHANGED idle_themesconfig

(***************************************************************************)
(* Theme and group handlers                                                *)
(***************************************************************************)
\* number of theme items of the document
item_count(doc) == Cardinality(Places(doc))

\* create_theme: gid is <<>> or <<g>>, db_ok tells whether the database
\* accepts the commit of the new map resource
create_theme(form, gid, db_ok) ==
    LET item     == form_item(form)
        new_name == basename(form.url)
        added    == IF db_ok
                    THEN {[id |-> next_id, type |-> "map", name |-> new_name,
                           parent_id |-> None]}
                    ELSE {}
    IN
    /\ item_count(themesconfig) < MaxItems
    /\ db_ok => next_id <= MaxMapId
    /\ UNCHANGED <<permissions, resource_types>>
    /\ IF ~validate_on_submit(form) THEN
           \* the form is shown again
           /\ response' = [op |-> "create_theme", status |-> 200,
                           flash |-> <<"warning">>, url |-> form.url,
                           gid |-> gid]
           /\ UNCHANGED <<resources, next_id, themesconfig, themesfile>>
       ELSE
           \* the map resource is added and committed before the item is
           \* appended
           /\ resources' = resources \cup added
           /\ next_id' = IF db_ok THEN next_id + 1 ELSE next_id
           /\ IF ~has_items(themesconfig, gid) THEN
                  \* IndexError
                  /\ response' = [op |-> "create_theme", status |-> 500,
                                  url |-> form.url, gid |-> gid]
                  /\ UNCHANGED <<themesconfig, themesfile>>
              ELSE
                  /\ themesconfig' =
                         with_items(themesconfig, gid,
                                    Append(items_of(themesconfig, gid), item))
                  /\ save_themesconfig(themesconfig')
                  /\ response' = [op |-> "create_theme", status |-> 302,
                                  flash |-> IF db_ok THEN <<"success">>
                                            ELSE <<"warning", "success">>,
                                  url |-> form.url, gid |-> gid]
    /\ UNCHANGED idle_themesconfig

\* the rows .filter_by(name=name).first() may return: <<>> (None) when no
\* row has the name, else any such row (the query has no order)
first_named_map(name, rows) ==
    IF \E r \in rows : r.type = "map" /\ r.name = name
    THEN {<<r>> : r \in {x \in rows : x.type = "map" /\ x.name = name}}
    ELSE {<<>>}
first_named(name, rows) ==
    IF \E r \in rows : r.name = name
    THEN {<<r>> : r \in {x \in rows : x.name = name}}
    ELSE {<<>>}

\* edit_theme: the form of an existing theme is shown
edit_theme(tid, gid) ==
    /\ response' = [op |-> "edit_theme",
                    status |-> IF find_theme(themesconfig, tid, gid) = <<>>
                               THEN 404 ELSE 200,
                    tid |-> tid, gid |-> gid]
    /\ UNCHANGED <<resources, next_id, permissions, resource_types,
                   themesconfig, idle_themesconfig, themesfile>>

\* update_theme
update_theme(tid, gid, form, db_ok) ==
    LET theme == find_theme(themesconfig, tid, gid) IN
    /\ UNCHANGED <<next_id, permissions, resource_types>>
    /\ IF theme = <<>> THEN
           /\ response' = [op |-> "update_theme", status |-> 404,
                           tid |-> tid, gid |-> gid]
           /\ UNCHANGED <<resources, themesconfig, themesfile>>
       ELSE IF ~validate_on_submit(form) THEN
           /\ response' = [op |-> "update_theme", status |-> 200,
                           flash |-> <<"warning">>, tid |-> tid, gid |-> gid]
           /\ UNCHANGED <<resources, themesconfig, themesfile>>
       ELSE
           /\ themesconfig' =
                  with_items(themesconfig, gid,
                             put(items_of(themesconfig, gid), tid,
                                 form_item(form)))
           /\ \E found \in first_named(basename(theme[1].url), resources) :
                  resources' =
                      IF found # <<>> /\ db_ok
                      THEN (resources \ {found[1]})
                             \cup {[found[1] EXCEPT
                                       !.name = basename(form.url)]}
                      ELSE resources
           /\ save_themesconfig(themesconfig')
           /\ response' =
                  [op |-> "update_theme", status |-> 302,
                   flash |-> IF db_ok
                                \/ \A r \in resources :
                                       r.name # basename(theme[1].url)
                             THEN <<"success">>
                             ELSE <<"warning", "success">>,
                   url |-> form.url, tid |-> tid, gid |-> gid]
    /\ UNCHANGED idle_themesconfig

\* session.delete(resource) of one row without its children: the rows
\* below it are not deleted, the ORM takes them out of the deleted row's
\* children (their parent_id becomes NULL)
delete_row_only(resource, rows) == {r \in rows : r.id # resource.id}
delete_row(resource, rows) ==
    {r \in rows : r.id # resource.id /\ r.parent_id # resource.id}
      \cup {[r EXCEPT !.parent_id = None] :
                r \in {c \in rows : c.parent_id = resource.id
                                      /\ c.id # resource.id}}

\* delete_theme
delete_theme(tid, gid, db_ok) ==
    /\ UNCHANGED <<next_id, permissions, resource_types>>
    /\ IF ~has_items(themesconfig, gid)
          \/ ~InRange(items_of(themesconfig, gid), tid) THEN
           \* IndexError
           /\ response' = [op |-> "delete_theme", status |-> 500,
                           tid |-> tid, gid |-> gid]
           /\ UNCHANGED <<resources, themesconfig, themesfile>>
       ELSE
           LET items == items_of(themesconfig, gid)
               name  == basename(items[At(items, tid)].url)
           IN
           /\ themesconfig' = with_items(themesconfig, gid, pop(items, tid))
           /\ \E found \in first_named_map(name, resources) :
                  resources' = IF found # <<>> /\ db_ok
                               THEN delete_row(found[1], resources)
                               ELSE resources
           /\ save_themesconfig(themesconfig')
           /\ response' =
                  [op |-> "delete_theme", status |-> 302,
                   flash |-> IF db_ok
                                \/ \A r \in resources :
                                       r.type # "map" \/ r.name # name
                             THEN <<>> ELSE <<"warning">>,
                   tid |-> tid, gid |-> gid]
    /\ UNCHANGED idle_themesconfig

\* add_theme_group: the title "new group" is written as "n"
add_theme_group ==
    /\ Len(themesconfig.groups) < MaxGroups
    /\ themesconfig' =
           [themesconfig EXCEPT
               !.groups = Append(@, [title |-> <<110>>, items |-> <<>>])]
    /\ save_themesconfig(themesconfig')
    /\ response' = [op |-> "add_theme_group", status |-> 302]
    /\ UNCHANGED <<resources, next_id, permissions, resource_types>>
    /\ UNCHANGED idle_themesconfig

\* delete_theme_group
delete_theme_group(gid) ==
    /\ UNCHANGED <<resources, next_id, permissions, resource_types>>
    /\ IF ~InRange(themesconfig.groups, gid) THEN
           \* IndexError
           /\ response' = [op |-> "delete_theme_group", status |-> 500,
                           gid |-> gid]
           /\ UNCHANGED <<themesconfig, themesfile>>
       ELSE
           /\ themesconfig' =
                  [themesconfig EXCEPT !.groups = pop(@, gid)]
           /\ save_themesconfig(themesconfig')
           /\ response' = [op |-> "delete_theme_group", status |-> 302,
                           gid |-> gid]
    /\ UNCHANGED idle_themesconfig

\* update_theme_group
update_theme_group(gid, group_title) ==
    /\ UNCHANGED <<resources, next_id, permissions, resource_types>>
    /\ IF ~InRange(themesconfig.groups, gid) THEN
           \* IndexError
           /\ response' = [op |-> "update_theme_group", status |-> 500,
                           gid |-> gid]
           /\ UNCHANGED <<themesconfig, themesfile>>
       ELSE
           /\ themesconfig' =
                  [themesconfig EXCEPT
                      !.groups[At(themesconfig.groups, gid)].title =
                          group_title]
           /\ save_themesconfig(themesconfig')
           /\ response' = [op |-> "update_theme_group", status |-> 302,
                           gid |-> gid]
    /\ UNCHANGED idle_themesconfig

(***************************************************************************)
(* Specification of the resource handlers                                  *)
(***************************************************************************)
\* list_order of the resource types
ListOrders ==
    {[t \in TypeNames |-> IF t = "map" THEN 1 ELSE 2],
     [t \in TypeNames |-> 1]}

EmptyThemes == [items |-> <<>>, groups |-> <<>>]

Methods == {"DELETE", "POST"}

\* the answers of the configuration, the config generator and the database
\* as <<url_defined, status_ok, json_ok, db_ok>>: all well, or one failure
Answers ==
    {<<TRUE, TRUE, TRUE, TRUE>>, <<FALSE, TRUE, TRUE, TRUE>>,
     <<TRUE, FALSE, TRUE, TRUE>>, <<TRUE, TRUE, FALSE, TRUE>>,
     <<TRUE, TRUE, TRUE, FALSE>>}

\* forms submitted in the specification of the resource tree: one type and
\* one name, any parent
TreeForms(rows) == {f \in Forms(rows) : f.type = "map" /\ f.name = <<98>>}

Init ==
    /\ resources = {}
    /\ next_id = 1
    /\ permissions = {}
    /\ resource_types = [t \in TypeNames |-> IF t = "map" THEN 1 ELSE 2]
    /\ themesconfig = EmptyThemes
    /\ themesfile = EmptyThemes
    /\ response = [op |-> "none"]
    /\ idle_themesconfig = themesconfig

\* resource tree: create, update and cascaded delete
NextTree ==
    \/ \E form \in TreeForms(resources) : create_resource(form)
    \/ \E id \in 1..MaxId, form \in TreeForms(resources) :
           update_resource(id, form)
    \/ \E id \in 1..MaxId, method \in Methods, db_ok \in BOOLEAN :
           destroy_casacaded(id, method, db_ok)

SpecTree == Init /\ [][NextTree]_vars

\* the lists of names the config generator answers with; the content of
\* the list matters when the request gets as far as comparing the names
Replies(a) ==
    IF a = <<TRUE, TRUE, TRUE, TRUE>> THEN SeqUpTo(Names, MaxResp)
    ELSE IF a[4] THEN {<<<<98>>>>}
    ELSE {<<<<98>>>>, <<<<98>>, <<97, 98>>>>}

\* import of maps and layers
NextImport ==
    \/ \E a \in Answers : \E maps_from_config \in Replies(a) :
           import_maps(a[1], a[2], a[3], maps_from_config, a[4])
    \/ \E id \in 1..Min(next_id, MaxId), a \in Answers :
           \E layers_from_config \in Replies(a) :
               import_children(id, a[1], a[2], a[3], layers_from_config, a[4])

SpecImport == Init /\ [][NextImport]_vars

(***************************************************************************)
(* Specification of the hierarchy view: the view is a function of the      *)
(* tables, which start as any forest of at most MaxNodes resources         *)
(***************************************************************************)
\* type and name of the resources of the forests
Kinds ==
    {[type |-> "map", name |-> <<97, 98>>], [type |-> "map", name |-> <<98>>],
     [type |-> "layer", name |-> <<98>>]}

\* permission rows, both of resource 1
PermissionRows == {[id |-> 1, resource_id |-> 1], [id |-> 2, resource_id |-> 1]}

Forest(n, kind, par) ==
    {[id |-> i, type |-> kind[i].type, name |-> kind[i].name,
      parent_id |-> par[i]] : i \in 1..n}

InitHier ==
    /\ \E n \in 1..MaxNodes :
           \E kind \in [1..n -> Kinds], par \in [1..n -> 0..n] :
               /\ Acyclic(Forest(n, kind, par))
               /\ resources = Forest(n, kind, par)
               /\ next_id = n + 1
    /\ permissions \in SUBSET PermissionRows
    /\ resource_types \in ListOrders
    /\ themesconfig = EmptyThemes
    /\ themesfile = EmptyThemes
    /\ response = [op |-> "none"]
    /\ idle_themesconfig = themesconfig

NextHier == \E id \in 1..MaxNodes : hierarchy(id)

SpecHier == InitHier /\ [][NextHier]_vars

(***************************************************************************)
(* Specification of the resources list: the list is a function of the      *)
(* table, which starts with at most MaxRows rows                           *)
(***************************************************************************)
\* type and name of the rows: "ab", "B", "b"
IndexKinds ==
    {[type |-> "map", name |-> <<97, 98>>], [type |-> "map", name |-> <<66>>],
     [type |-> "layer", name |-> <<98>>]}

\* the search text, type filter, sort column and direction of the requests:
\* no argument, a search for "a", a search for "B" among the maps by id,
\* all by name (descending), the layers by type, a sort column that is
\* not sortable, and a search for "_"
Queries ==
    {<<<<>>, <<>>, <<>>, TRUE>>,
     <<<<97>>, <<>>, <<>>, TRUE>>,
     <<<<66>>, <<"map">>, <<"id">>, TRUE>>,
     <<<<>>, <<>>, <<"name">>, FALSE>>,
     <<<<>>, <<"layer">>, <<"type">>, TRUE>>,
     <<<<>>, <<>>, <<"parent">>, FALSE>>,
     <<<<Underscore>>, <<>>, <<>>, TRUE>>}

InitIndex ==
    /\ \E n \in 0..MaxRows :
           \E kind \in [1..n -> IndexKinds] :
               /\ resources = Forest(n, kind, [i \in 1..n |-> None])
               /\ next_id = n + 1
    /\ permissions = {}
    /\ resource_types = [t \in TypeNames |-> IF t = "map" THEN 1 ELSE 2]
    /\ themesconfig = EmptyThemes
    /\ themesfile = EmptyThemes
    /\ response = [op |-> "none"]
    /\ idle_themesconfig = themesconfig

NextIndex ==
    \E q \in Queries, page \in 1..MaxPage, per_page \in 1..MaxPerPage :
        index(q[1], q[2], q[3], q[4], page, per_page)

SpecIndex == InitIndex /\ [][NextIndex]_vars

(***************************************************************************)
(* Specification of the moves: the document starts with any item list of   *)
(* at most MaxLen items, as themes.items or as the items of one of at      *)
(* most MaxMoveGroups groups                                               *)
(***************************************************************************)
\* items with the urls "a", "b"
MoveItems == {[url |-> <<c>>, title |-> <<>>] : c \in 97..98}

\* the groups are titled "1", "2", ...
MoveDocument(list, n, where) ==
    [items  |-> IF where = 0 THEN list ELSE <<>>,
     groups |-> [g \in 1..n |->
                    [title |-> <<48 + g>>,
                     items |-> IF where = g THEN list ELSE <<>>]]]

Directions == {"up", "down"}

InitMove ==
    /\ \E list \in SeqUpTo(MoveItems, MaxLen), n \in 0..MaxMoveGroups :
           \E where \in 0..n :
               /\ themesconfig = MoveDocument(list, n, where)
               /\ themesfile = MoveDocument(list, n, where)
    /\ resources = {}
    /\ next_id = 1
    /\ permissions = {}
    /\ resource_types = [t \in TypeNames |-> IF t = "map" THEN 1 ELSE 2]
    /\ response = [op |-> "none"]
    /\ idle_themesconfig = themesconfig

NextMove ==
    \/ \E direction \in Directions, tid \in 0..MaxLen,
          gid \in {<<>>} \cup {<<g>> : g \in 0..MaxMoveGroups} :
           move_theme(direction, tid, gid)
    \/ \E direction \in Directions, gid \in 0..MaxMoveGroups :
           move_theme_group(gid, direction)

SpecMove == InitMove /\ [][NextMove]_vars

(***************************************************************************)
(* Specification of the themes editor: an empty document and no map        *)
(* resources at the start                                                  *)
(***************************************************************************)
\* submitted forms: the urls "a", "b" and "/a" and a form without url
ThemeForms ==
    {[url |-> <<97>>, title |-> <<>>], [url |-> <<98>>, title |-> <<116>>],
     [url |-> <<Slash, 97>>, title |-> <<>>], [url |-> <<>>, title |-> <<>>]}

\* submitted group titles: "g"
GroupTitles == {<<103>>}

Gids == {<<>>} \cup {<<g>> : g \in 0..(MaxGroups - 1)}

NextThemes ==
    \/ \E form \in ThemeForms, gid \in Gids, db_ok \in BOOLEAN :
           create_theme(form, gid, db_ok)
    \/ \E tid \in 0..(MaxItems - 1), gid \in Gids : edit_theme(tid, gid)
    \/ \E tid \in 0..(MaxItems - 1), gid \in Gids, form \in ThemeForms,
          db_ok \in BOOLEAN :
           update_theme(tid, gid, form, db_ok)
    \/ \E tid \in 0..(MaxItems - 1), gid \in Gids, db_ok \in BOOLEAN :
           delete_theme(tid, gid, db_ok)
    \/ \E direction \in Directions, tid \in 0..(MaxItems - 1), gid \in Gids :
           move_theme(direction, tid, gid)
    \/ add_theme_group
    \/ \E gid \in 0..(MaxGroups - 1) : delete_theme_group(gid)
    \/ \E gid \in 0..(MaxGroups - 1), group_title \in GroupTitles :
           update_theme_group(gid, group_title)
    \/ \E direction \in Directions, gid \in 0..(MaxGroups - 1) :
           move_theme_group(gid, direction)

SpecThemes == Init /\ [][NextThemes]_vars

(***************************************************************************)
(* Properties of the cascaded delete                                       *)
(***************************************************************************)
\* C1: a successful destroy_casacaded(r) removes exactly r and all of its
\* transitive descendants; every resource outside r's subtree remains with
\* unchanged type, name and parent_id
C1_CascadeRemovesSubtree ==
    [][(response'.op = "destroy_casacaded" /\ response'.status = 302) =>
          /\ Ids(resources') = Ids(resources) \ Subtree(response'.id, resources)
          /\ \A r \in resources :
                 r.id \notin Subtree(response'.id, resources) =>
                     r \in resources'
          /\ resources' \subseteq resources]_vars

\* a resource with a child and a grandchild was deleted and an unrelated
\* resource is still there
C1_Witness ==
    /\ response.op = "destroy_casacaded"
    /\ response.status = 302
    /\ Cardinality(response.deleted) >= 3
    /\ resources # {}

(***************************************************************************)
(* Properties of the imports                                               *)
(***************************************************************************)
\* s is in strictly ascending lexicographic order
Ascending(s) == \A i, j \in 1..Len(s) : i < j => LexLess(s[i], s[j])

\* the rows of added carry exactly the names of wanted, once each, and
\* their primary keys follow the lexicographic order of their names
AddedExactly(added, wanted) ==
    /\ \A r \in added : r.name \in wanted
    /\ \A n \in wanted : Cardinality({r \in added : r.name = n}) = 1
    /\ \A r1, r2 \in added : r1.id < r2.id => LexLess(r1.name, r2.name)

\* C6: a successful import_maps adds exactly one new Resource of type "map"
\* for each returned name that no existing map resource has, adds nothing
\* else, and stages the new rows in ascending lexicographic order of name
C6_ImportMapsSetDifference ==
    [][(response'.op = "import_maps"
          /\ response'.flash \in {"success", "info"}) =>
          LET old   == {r.name : r \in {x \in resources : x.type = "map"}}
              added == resources' \ resources
          IN  /\ resources \subseteq resources'
              /\ \A r \in added : r.type = "map" /\ r.parent_id = None
              /\ AddedExactly(added, set(response'.from_config) \ old)
              /\ Ascending(response'.staged)
              /\ set(response'.staged) = {r.name : r \in added}]_vars

\* two maps were added from a list that names them in another order than
\* the sorted one
C6_Witness ==
    /\ response.op = "import_maps"
    /\ response.flash = "success"
    /\ Len(response.staged) = 2
    /\ response.from_config # response.staged

\* C7: a successful import_children(m) on a map adds exactly the returned
\* layer names that no existing layer child of m has, as resources of type
\* "layer" below m in lexicographic order, and changes no other resource;
\* on a resource that is not a map it adds nothing
C7_ImportLayersSetDifference ==
    [][(response'.op = "import_children" /\ response'.status = 302) =>
          LET m     == CHOOSE r \in resources : r.id = response'.id
              old   == {r.name : r \in {x \in resources :
                            x.type = "layer" /\ x.parent_id = m.id}}
              added == resources' \ resources
          IN  /\ resources \subseteq resources'
              /\ m.type # "map" => added = {}
              /\ \A r \in added : r.type = "layer" /\ r.parent_id = m.id
              /\ response'.flash \in {"success", "info"} =>
                     /\ m.type = "map"
                     /\ AddedExactly(added,
                                     set(response'.from_config) \ old)
                     /\ Ascending(response'.staged)
                     /\ set(response'.staged) = {r.name : r \in added}]_vars

\* a layer was added to a map while a layer of the same name exists below
\* another map
C7_Witness ==
    /\ response.op = "import_children"
    /\ response.status = 302
    /\ response.flash = "success"
    /\ \E r \in resources :
           /\ r.type = "layer" /\ r.parent_id # response.id
           /\ r.name \in set(response.staged)

(***************************************************************************)
(* Properties of the hierarchy view                                        *)
(***************************************************************************)
Shown == response.op = "hierarchy" /\ response.status = 200

\* C8: hierarchy(id) starts its collection from the root of the tree of id,
\* the same for every node of that tree; the root has depth 0 and every
\* record of a resource c with parent p has depth(c) = depth(p) + 1
C8_HierarchyRootAndDepth ==
    Shown =>
        LET items == response.items
            root  == items[1].resource
        IN  /\ root.parent_id = None
            /\ root.id \in {response.id} \cup Ancestors(response.id, resources)
            /\ items[1].depth = 0
            /\ \A b \in Subtree(root.id, resources) :
                   collect_resources(
                       root_of(find_resource(b, resources), resources),
                       0, resources)[1].resource = root
            /\ \A i \in 2..Len(items) :
                   \E j \in 1..Len(items) :
                       /\ items[j].resource.id = items[i].resource.parent_id
                       /\ items[i].depth = items[j].depth + 1

\* the view of a resource two levels below its root
C8_Witness ==
    /\ Shown
    /\ response.items[1].resource.id # response.id
    /\ \E i \in 1..Len(response.items) : response.items[i].depth = 2

\* a comes before b in (list_order, type, name, id)
Before(a, b) ==
    LET la == resource_types[a.type]
        lb == resource_types[b.type]
    IN  \/ la < lb
        \/ la = lb /\ LexLess(TypeChars(a.type), TypeChars(b.type))
        \/ la = lb /\ a.type = b.type /\ LexLess(a.name, b.name)
        \/ la = lb /\ a.type = b.type /\ a.name = b.name /\ a.id < b.id

\* C9: the items are a pre-order depth-first listing of the tree: every
\* node exactly once, a node directly followed by all of its descendants,
\* the children of a node in ascending (list_order, type, name, id), and
\* the permissions flag true exactly when a Permission row references the
\* resource
C9_PreOrderListing ==
    Shown =>
        LET items == response.items
            tree  == Subtree(items[1].resource.id, resources)
        IN  /\ {items[i].resource.id : i \in 1..Len(items)} = tree
            /\ Len(items) = Cardinality(tree)
            /\ \A i \in 1..Len(items) : items[i].resource \in resources
            /\ \A i \in 1..Len(items) :
                   {items[j].resource.id :
                        j \in (i + 1)..
                              (i + Cardinality(Descendants(
                                       items[i].resource.id, resources)))}
                     = Descendants(items[i].resource.id, resources)
            /\ \A i, j \in 2..Len(items) :
                   (i < j /\ items[i].resource.parent_id
                               = items[j].resource.parent_id)
                       => Before(items[i].resource, items[j].resource)
            /\ \A i \in 1..Len(items) :
                   items[i].permissions
                     <=> (\E p \in permissions :
                              p.resource_id = items[i].resource.id)

\* a root with permissions and two children of different type
C9_Witness ==
    /\ Shown
    /\ response.items[1].permissions
    /\ Len(response.items) = 3
    /\ response.items[2].depth = 1 /\ response.items[3].depth = 1
    /\ response.items[2].resource.type # response.items[3].resource.type

(***************************************************************************)
(* Properties of the resources list                                        *)
(***************************************************************************)
Listed == response.op = "index"

\* the whole ordered result of the query the list was made from
Result ==
    ordered_query(response.search, response.type, response.sort,
                  response.sort_asc, resources)

\* C10: num_pages is the ceiling of N / s; page p <= num_pages holds rows
\* (p-1)*s+1 .. min(p*s, N) of the ordered result, a page p > num_pages
\* is empty
C10_Pagination ==
    Listed =>
        LET N == Len(Result)
            s == response.per_page
            p == response.page
            k == response.num_pages
            rows == response.resources
        IN  /\ k * s >= N
            /\ k > 0 => (k - 1) * s < N
            /\ k >= 0
            /\ p <= k =>
                   /\ Len(rows) = Min(p * s, N) - (p - 1) * s
                   /\ Len(rows) >= 1
                   /\ \A i \in 1..Len(rows) : rows[i] = Result[(p - 1) * s + i]
            /\ p > k => rows = <<>>

\* the last page of three rows in pages of two: one row
C10_Witness ==
    /\ Listed
    /\ Len(Result) = 3
    /\ response.per_page = 2
    /\ response.page = 2
    /\ response.num_pages = 2
    /\ Len(response.resources) = 1

(***************************************************************************)
(* Properties of the moves                                                 *)
(***************************************************************************)
\* new is old with the items at the positions a and b exchanged
Exchanged(old, new, a, b) ==
    /\ Len(new) = Len(old)
    /\ new[a] = old[b]
    /\ new[b] = old[a]
    /\ \A k \in 1..Len(old) : k \notin {a, b} => new[k] = old[k]

\* the step is a move_theme request on an existing item list
MovesTheme ==
    /\ response'.op = "move_theme"
    /\ has_items(themesconfig, response'.gid)

\* C3: on an item list of length n >= 1, move_theme("up", 0) and
\* move_theme("down", n - 1) leave the list as it was
C3_MoveAtEndIsNoop ==
    [][MovesTheme =>
          LET old == items_of(themesconfig, response'.gid)
              tid == response'.tid
          IN  (/\ Len(old) >= 1
               /\ \/ response'.direction = "up" /\ tid = 0
                  \/ response'.direction = "down" /\ tid = Len(old) - 1)
                  => /\ response'.status = 302
                     /\ themesconfig' = themesconfig
                     /\ themesfile' = themesconfig]_vars

\* the last of three items of a group, not all the same, was moved down
C3_Witness ==
    /\ response.op = "move_theme"
    /\ response.status = 302
    /\ response.direction = "down"
    /\ response.gid # <<>>
    /\ response.tid = 2
    /\ Len(items_of(themesconfig, response.gid)) = 3
    /\ Cardinality(set(items_of(themesconfig, response.gid))) = 2

\* C4: a move_theme that is not at the boundary exchanges two adjacent
\* items and leaves the others: "up" with 0 < tid <= n-1 the items tid-1
\* and tid, "down" with 0 <= tid < n-1 the items tid and tid+1
C4_MoveSwapsAdjacent ==
    [][MovesTheme =>
          LET old == items_of(themesconfig, response'.gid)
              new == items_of(themesconfig', response'.gid)
              tid == response'.tid
          IN  /\ (response'.direction = "up" /\ 0 < tid /\ tid <= Len(old) - 1)
                     => Exchanged(old, new, tid, tid + 1)
              /\ (response'.direction = "down" /\ tid < Len(old) - 1)
                     => Exchanged(old, new, tid + 1, tid + 2)]_vars

\* the step is a move_theme_group request on an existing group
MovesGroup ==
    /\ response'.op = "move_theme_group"
    /\ response'.gid < Len(themesconfig.groups)

\* C5: move_theme_group on a valid gid: "up" at gid = 0 and "down" at
\* gid = n-1 are no-ops, "up" at gid > 0 exchanges the groups gid-1 and gid,
\* "down" at gid < n-1 the groups gid and gid+1, the others keep their place
C5_MoveGroupSwapsAdjacent ==
    [][MovesGroup =>
          LET old == themesconfig.groups
              new == themesconfig'.groups
              gid == response'.gid
          IN  /\ (response'.direction = "up" /\ gid = 0) => new = old
              /\ (response'.direction = "down" /\ gid = Len(old) - 1)
                     => new = old
              /\ (response'.direction = "up" /\ gid > 0)
                     => Exchanged(old, new, gid, gid + 1)
              /\ (response'.direction = "down" /\ gid < Len(old) - 1)
                     => Exchanged(old, new, gid + 1, gid + 2)]_vars

(***************************************************************************)
(* Themes and map resources                                                *)
(***************************************************************************)
\* C2: after any sequence of theme operations the urls' last path segments
\* of the theme items are in 1:1 correspondence with the names of the
\* resources of type "map": every theme item has exactly one such resource
\* and every such resource has exactly one theme item
C2_ThemesMatchMapResources ==
    /\ \A place \in Places(themesconfig) :
           Cardinality({r \in resources :
                           /\ r.type = "map"
                           /\ r.name = basename(item_at(themesconfig,
                                                        place).url)}) = 1
    /\ \A r \in resources :
           r.type = "map" =>
               Cardinality({place \in Places(themesconfig) :
                               basename(item_at(themesconfig, place).url)
                                 = r.name}) = 1

(***************************************************************************)
(* The themes file as JSON text and the document loaded from it            *)
(*                                                                         *)
(* JSON text: an object is [t |-> "obj", v |-> sequence of <<name, value>> *)
(* members as written], an array [t |-> "arr", v |-> sequence of values],  *)
(* a string [t |-> "str", v |-> code points], null [t |-> "null"].         *)
(* Loaded: an object is an OrderedDict [t |-> "dict", keys, val], an array *)
(* a list [t |-> "list", v]; strings and null are themselves.              *)
(***************************************************************************)
\* most items of themes.items in the JSON texts that are loaded and saved
MaxDocItems == 2

\* OrderedDict(pairs): a key stands where it first occurs and holds the
\* value of its last occurrence
OrderedKeys(pairs) ==
    LET first == {i \in 1..Len(pairs) :
                      \A j \in 1..(i - 1) : pairs[j][1] # pairs[i][1]}
        Keys[n \in 0..Len(pairs)] ==
            IF n = 0 THEN <<>>
            ELSE IF n \in first THEN Append(Keys[n - 1], pairs[n][1])
            ELSE Keys[n - 1]
    IN  Keys[Len(pairs)]

LastValue(pairs, k) ==
    LET at == {i \in 1..Len(pairs) : pairs[i][1] = k}
    IN  pairs[CHOOSE i \in at : \A j \in at : j <= i][2]

\* a dict that does not keep the order of the members: names in code order
object_pairs_hook_dict(pairs) ==
    LET names == {pairs[i][1] : i \in 1..Len(pairs)}
        rank(k) == CASE k = "groups" -> 1 [] k = "items" -> 2
                     [] k = "themes" -> 3 [] k = "title" -> 4
                     [] k = "url" -> 5 [] OTHER -> 6
        Keys[n \in 0..Cardinality(names)] ==
            IF n = 0 THEN <<>>
            ELSE Append(Keys[n - 1],
                        CHOOSE k \in names :
                            Cardinality({o \in names : rank(o) < rank(k)})
                              = n - 1)
    IN  Keys[Cardinality(names)]
object_pairs_hook(pairs) == OrderedKeys(pairs)

\* json.load(fh, object_pairs_hook=OrderedDict)
RECURSIVE json_load(_)
json_load(j) ==
    CASE j.t = "obj" ->
           [t |-> "dict", keys |-> object_pairs_hook(j.v),
            val |-> [k \in {j.v[i][1] : i \in 1..Len(j.v)} |->
                        json_load(LastValue(j.v, k))]]
      [] j.t = "arr" ->
           [t |-> "list", v |-> [i \in 1..Len(j.v) |-> json_load(j.v[i])]]
      [] OTHER -> j

\* json.dump(self.themesconfig, fh, indent=2, separators=(',', ': ')):
\* the members of a dict in the order of its keys; None is written as null
RECURSIVE json_dump(_)
json_dump(d) ==
    CASE d.t = "dict" ->
           [t |-> "obj",
            v |-> [i \in 1..Len(d.keys) |->
                      <<d.keys[i], json_dump(d.val[d.keys[i]])>>]]
      [] d.t = "list" ->
           [t |-> "arr", v |-> [i \in 1..Len(d.v) |-> json_dump(d.v[i])]]
      [] OTHER -> d

JsonNull == [t |-> "null"]

\* load_themesconfig: the loaded document, None when the file is not read
load_themesconfig(io_ok) ==
    /\ themesconfig' = IF io_ok THEN json_load(themesfile) ELSE JsonNull
    /\ response' = [op |-> "load_themesconfig",
                    flash |-> IF io_ok THEN <<>> ELSE <<"error">>]
    /\ UNCHANGED <<resources, next_id, permissions, resource_types,
                   themesfile>>
    /\ UNCHANGED idle_themesconfig

\* save_themesconfig on the document held in memory; nothing is written
\* when the file cannot be opened
dump_themesconfig(io_ok) ==
    /\ IF io_ok THEN save_themesconfig(json_dump(themesconfig))
       ELSE UNCHANGED themesfile
    /\ response' = [op |-> "save_themesconfig",
                    flash |-> IF io_ok THEN <<>> ELSE <<"error">>,
                    loaded |-> response.op = "load_themesconfig"
                                 /\ response.flash = <<>>]
    /\ UNCHANGED <<resources, next_id, permissions, resource_types,
                   themesconfig>>
    /\ UNCHANGED idle_themesconfig

(***************************************************************************)
(* Specification of loading and saving the themes file                     *)
(***************************************************************************)
JsonStr(s) == [t |-> "str", v |-> s]
JsonObj(pairs) == [t |-> "obj", v |-> pairs]
JsonArr(values) == [t |-> "arr", v |-> values]

\* theme items as written in a file: url "a" or "/b", a title or none,
\* written before or after the url
ItemTexts ==
    UNION {{JsonObj(<<<<"url", JsonStr(u)>>>>),
            JsonObj(<<<<"url", JsonStr(u)>>, <<"title", JsonStr(<<116>>)>>>>),
            JsonObj(<<<<"title", JsonStr(<<116>>)>>, <<"url", JsonStr(u)>>>>)} :
               u \in {<<97>>, <<Slash, 98>>}}

\* groups as written in a file: title "g" and at most one item
GroupTexts ==
    {JsonObj(<<<<"title", JsonStr(<<103>>)>>, <<"items", JsonArr(items)>>>>) :
        items \in SeqUpTo(ItemTexts, 1)}

\* themes documents as written in a file, "items" before or after "groups"
ThemesTexts ==
    UNION {{JsonObj(<<<<"themes",
                        JsonObj(<<<<"items", JsonArr(items)>>,
                                  <<"groups", JsonArr(groups)>>>>)>>>>),
            JsonObj(<<<<"themes",
                        JsonObj(<<<<"groups", JsonArr(groups)>>,
                                  <<"items", JsonArr(items)>>>>)>>>>)} :
               items \in SeqUpTo(ItemTexts, MaxDocItems),
               groups \in SeqUpTo(GroupTexts, 1)}

\* the constructor has loaded the file
InitFile ==
    /\ resources = {}
    /\ next_id = 1
    /\ permissions = {}
    /\ resource_types = [t \in TypeNames |-> IF t = "map" THEN 1 ELSE 2]
    /\ themesfile \in ThemesTexts
    /\ themesconfig = json_load(themesfile)
    /\ response = [op |-> "none", flash |-> <<>>]
    /\ idle_themesconfig = themesconfig

NextFile ==
    \/ \E io_ok \in BOOLEAN : load_themesconfig(io_ok)
    \/ \E io_ok \in BOOLEAN : dump_themesconfig(io_ok)

SpecFile == InitFile /\ [][NextFile]_vars

(***************************************************************************)
(* Round trip of the themes file                                           *)
(***************************************************************************)
\* C11: load_themesconfig followed immediately by save_themesconfig writes
\* a document equivalent to the one read: the same members in the same
\* order with the same values, the same order of themes.items, of the
\* groups and of each group's items
C11_LoadSaveRoundTrip ==
    [][(response'.op = "save_themesconfig" /\ response'.loaded
          /\ response'.flash = <<>>)
         => themesfile' = themesfile]_vars

\* a document with two different items, a title written before the url and
\* "groups" written before "items" has been loaded and saved
C11_Witness ==
    /\ response.op = "save_themesconfig"
    /\ response.loaded
    /\ response.flash = <<>>
    /\ themesfile.v[1][2].v[1][1] = "groups"
    /\ Len(themesfile.v[1][2].v[2][2].v) = 2
    /\ themesfile.v[1][2].v[2][2].v[1] # themesfile.v[1][2].v[2][2].v[2]
    /\ themesfile.v[1][2].v[2][2].v[1].v[1][1] = "title"
    /\ Len(themesfile.v[1][2].v[1][2].v) = 1

(***************************************************************************)
(* Specification of the theme items and their map resources: the document  *)
(* is empty, the resources table is empty or holds a layer "a" without     *)
(* parent; themes are created, updated and deleted                         *)
(***************************************************************************)
\* group indexes requested: none and the first group (which the document
\* does not have)
PairGids == {<<>>, <<0>>}

InitPair ==
    /\ resources \in
           {{}, {[id |-> 1, type |-> "layer", name |-> <<97>>,
                  parent_id |-> None]}}
    /\ next_id = Cardinality(resources) + 1
    /\ permissions = {}
    /\ resource_types = [t \in TypeNames |-> IF t = "map" THEN 1 ELSE 2]
    /\ themesconfig = EmptyThemes
    /\ themesfile = EmptyThemes
    /\ response = [op |-> "none"]
    /\ idle_themesconfig = themesconfig

NextPair ==
    \/ \E form \in ThemeForms, gid \in PairGids, db_ok \in BOOLEAN :
           create_theme(form, gid, db_ok)
    \/ \E tid \in 0..(MaxItems - 1), gid \in PairGids, form \in ThemeForms,
          db_ok \in BOOLEAN :
           update_theme(tid, gid, form, db_ok)
    \/ \E tid \in 0..(MaxItems - 1), gid \in PairGids, db_ok \in BOOLEAN :
           delete_theme(tid, gid, db_ok)

SpecPair == InitPair /\ [][NextPair]_vars

(***************************************************************************)
(* A created theme and its map resource                                    *)
(***************************************************************************)
\* one item with the url is appended to themes.items, the earlier items
\* stay, and one row {type "map", name = last path segment} is added
CreatesPair(url) ==
    LET old == themesconfig.items
        new == themesconfig'.items
    IN  /\ Len(new) = Len(old) + 1
        /\ SubSeq(new, 1, Len(old)) = old
        /\ new[Len(new)].url = url
        /\ themesfile' = themesconfig'
        /\ \E r \in resources' \ resources :
               /\ r.type = "map"
               /\ r.name = basename(url)
               /\ resources' = resources \cup {r}

\* the item at tid leaves themes.items, the other items stay, and one row
\* {type "map", name = last path segment of the item's url} is removed
DeletesPair(tid) ==
    LET old == themesconfig.items
        new == themesconfig'.items
    IN  /\ new = SubSeq(old, 1, tid) \o SubSeq(old, tid + 2, Len(old))
        /\ themesfile' = themesconfig'
        /\ \E r \in resources :
               /\ r.type = "map"
               /\ r.name = basename(old[tid + 1].url)
               /\ r \notin resources'
               /\ Ids(resources') = Ids(resources) \ {r.id}

\* the map resources named by the last path segment of the url
PairedMaps(url) ==
    {r \in resources : r.type = "map" /\ r.name = basename(url)}

C13_UpdateRenamesPairedMap ==
    [][(/\ response'.op = "update_theme"
        /\ response'.status = 302
        /\ response'.flash = <<"success">>)
         => LET gid   == response'.gid
                tid   == response'.tid
                old   == items_of(themesconfig, gid)
                new   == items_of(themesconfig', gid)
                a     == basename(old[tid + 1].url)
                b     == basename(response'.url)
                named == {r \in resources : r.type = "map" /\ r.name = a}
            IN  /\ Len(new) = Len(old)
                /\ new[tid + 1].url = response'.url
                /\ \A i \in 1..Len(old) : i # tid + 1 => new[i] = old[i]
                /\ themesconfig' = with_items(themesconfig, gid, new)
                /\ named # {} =>
                       \E r \in named : [r EXCEPT !.name = b] \in resources'
                /\ \A r \in resources :
                       r \notin named => r \in resources']_vars

(***************************************************************************)
(* Specification of the resources table under all of its writers: the      *)
(* resource form, the cascaded delete, the imports and the themes editor   *)
(***************************************************************************)
\* largest primary key handed out and most theme items when all writers
\* run together
MaxAllId == 2
MaxAllItems == 1

\* forms of the themes editor: the urls "a" and "b"
AllThemeForms ==
    {[url |-> <<97>>, title |-> <<>>], [url |-> <<98>>, title |-> <<116>>]}

\* values of the form field _method: none, "delete", "post"
FormMethods == {<<>>, <<"delete">>, <<"post">>}

NextAll ==
    \/ \E form \in TreeForms(resources) :
           next_id <= MaxAllId /\ create_resource(form)
    \/ \E id \in 1..MaxAllId, form \in TreeForms(resources) :
           update_resource(id, form)
    \/ \E id \in 1..MaxAllId, form_method \in FormMethods,
          request_method \in Methods :
           \E db_ok \in IF id \in Ids(resources) THEN BOOLEAN ELSE {TRUE} :
               destroy_casacaded(id,
                                 effective_method(form_method, request_method),
                                 db_ok)
    \/ \E id \in 1..MaxAllId : hierarchy(id)
    \/ \E db_ok \in BOOLEAN :
           /\ next_id <= MaxAllId
           /\ import_maps(TRUE, TRUE, TRUE, <<<<98>>>>, db_ok)
    \/ \E id \in 1..MaxAllId, db_ok \in BOOLEAN :
           /\ next_id <= MaxAllId
           /\ import_children(id, TRUE, TRUE, TRUE, <<<<98>>>>, db_ok)
    \/ \E form \in AllThemeForms, db_ok \in BOOLEAN :
           /\ next_id <= MaxAllId
           /\ item_count(themesconfig) < MaxAllItems
           /\ create_theme(form, <<>>, db_ok)
    \/ \E tid \in 0..(MaxAllItems - 1), form \in AllThemeForms,
          db_ok \in BOOLEAN :
           update_theme(tid, <<>>, form, db_ok)
    \/ \E tid \in 0..(MaxAllItems - 1), db_ok \in BOOLEAN :
           delete_theme(tid, <<>>, db_ok)

SpecAll == Init /\ [][NextAll]_vars

C15_DeleteErrorIsFlashed ==
    [][(/\ response'.op = "destroy_casacaded"
        /\ response'.status \notin {404, 405}
        /\ ~OnCycle(response'.id, resources)
        /\ resources' = resources)
         => LET resource == find_resource(response'.id, resources)
            IN  /\ response'.status = 302
                /\ response'.flash = "error"
                /\ response'.location =
                       IF resource.parent_id # None
                       THEN <<"hierarchy", resource.parent_id>>
                       ELSE <<"resources">>]_vars

(***************************************************************************)
(* Two controllers on one themes file                                      *)
(*                                                                         *)
(* Each process constructs its own ThemesController, which loads the file  *)
(* into its own themesconfig; only the theme list (index) loads it again.  *)
(* No handler locks the file.                                              *)
(***************************************************************************)
\* ThemesController.index: the theme list loads the file again
themes_index ==
    /\ themesconfig' = themesfile
    /\ response' = [op |-> "themes", status |-> 200]
    /\ UNCHANGED <<resources, next_id, permissions, resource_types,
                   idle_themesconfig, themesfile>>

\* the next request is handled by the controller of the other process
dispatch ==
    /\ themesconfig # idle_themesconfig
    /\ themesconfig' = idle_themesconfig
    /\ idle_themesconfig' = themesconfig
    /\ response' = [op |-> "none"]
    /\ UNCHANGED <<resources, next_id, permissions, resource_types,
                   themesfile>>

NextWorkers ==
    \/ dispatch
    \/ themes_index
    \/ add_theme_group
    \/ \E gid \in 0..(MaxGroups - 1) : delete_theme_group(gid)
    \/ \E form \in AllThemeForms : create_theme(form, <<>>, TRUE)
    \/ \E tid \in 0..(MaxItems - 1) : delete_theme(tid, <<>>, TRUE)

SpecWorkers == Init /\ [][NextWorkers]_vars

(***************************************************************************)
(* Lost update on the themes file                                          *)
(***************************************************************************)
\* C16: two request handlers hold their own copy of the themes document
\* and no handler locks or reads the file before it writes: every write
\* replaces the whole file by the writer's copy and leaves the copy of the
\* other controller as it was, so that a change the other controller wrote
\* before is absent from the file afterwards, with no error reported
C16_WritesWholeOwnCopy ==
    [][(themesfile' # themesfile)
         => /\ themesfile' = themesconfig'
            /\ idle_themesconfig' = idle_themesconfig
            /\ response'.status = 302]_vars

\* the other controller added a group and wrote it; this controller, with
\* the copy it loaded before, created a theme and wrote the file: the
\* group is absent from the file and the request ended with a redirect
C16_Witness ==
    /\ response.op = "create_theme"
    /\ response.status = 302
    /\ Len(idle_themesconfig.groups) = 1
    /\ idle_themesconfig.items = <<>>
    /\ themesfile.groups = <<>>
    /\ Len(themesfile.items) = 1
    /\ themesfile = themesconfig

(***************************************************************************)
(* Method not allowed and not found                                        *)
(***************************************************************************)
\* C17: destroy_casacaded whose effective method is not DELETE ends with
\* 405; destroy_casacaded, hierarchy and import_children on an id that
\* matches no resource end with 404; in each of these cases no resource is
\* added, removed or changed
C17_NotAllowedNotFound ==
    [][LET op == response'.op IN
       /\ (op = "destroy_casacaded" /\ response'.method # "DELETE")
            => (response'.status = 405 /\ resources' = resources
                  /\ next_id' = next_id)
       /\ (/\ op \in {"destroy_casacaded", "hierarchy", "import_children"}
           /\ op = "destroy_casacaded" => response'.method = "DELETE"
           /\ response'.id \notin Ids(resources))
            => (response'.status = 404 /\ resources' = resources
                  /\ next_id' = next_id)]_vars

\* destroy_casacaded of an existing resource that has a child was answered
\* with 405
C17_Witness ==
    /\ response.op = "destroy_casacaded"
    /\ response.status = 405
    /\ response.id \in Ids(resources)
    /\ \E c \in resources : c.parent_id = response.id

(***************************************************************************)
(* Failed imports                                                          *)
(***************************************************************************)
\* the import request of the step failed: the url is not configured, the
\* config generator answered with a status that is not OK or with a body
\* that cannot be decoded, or the commit of new rows raised
ImportFailed ==
    LET a   == response'.answer
        cfg == set(response'.from_config)
    IN  IF response'.op = "import_maps" THEN
            \/ ~a[1] \/ ~a[2] \/ ~a[3]
            \/ ~a[4] /\ cfg \ {r.name : r \in {x \in resources :
                                                  x.type = "map"}} # {}
        ELSE
            \/ ~a[1]
            \/ /\ find_resource(response'.id, resources).type = "map"
               /\ \/ ~a[2] \/ ~a[3]
                  \/ ~a[4]
                     /\ cfg \ {r.name : r \in {x \in resources :
                                  /\ x.type = "layer"
                                  /\ x.parent_id = response'.id}} # {}

NoSuchEntity ==
    LET op == response'.op IN
    IF op \in {"edit_theme", "update_theme", "delete_theme", "move_theme"}
    THEN \/ ~has_items(themesconfig, response'.gid)
         \/ response'.tid >= Len(items_of(themesconfig, response'.gid))
    ELSE /\ op \in {"delete_theme_group", "update_theme_group",
                    "move_theme_group"}
         /\ response'.gid >= Len(themesconfig.groups)

\* C19: every theme or group operation addressed by an index that matches
\* no entity ends as not found and leaves the themes document in memory,
\* the file and the resources unchanged
C19_NoSuchEntityIsNotFound ==
    [][NoSuchEntity
         => /\ response'.status = 404
            /\ themesconfig' = themesconfig
            /\ themesfile' = themesfile
            /\ resources' = resources]_vars


(***************************************************************************)
(* Properties of the filter and the order of the resources list            *)
(***************************************************************************)
\* the name contains the text, letters compared without their case
Contains(name, text) ==
    \E off \in 0..(Len(name) - Len(text)) :
        \A i \in 1..Len(text) : Lower(name[off + i]) = Lower(text[i])

\* the resources the list is to show for the search text and type filter
\* of the request
Matching ==
    {r \in resources :
        /\ response.search # <<>> => Contains(r.name, response.search)
        /\ response.type # <<>> => r.type = response.type[1]}

\* a sort argument that selects a column list
Sorted == response.sort # <<>> /\ response.sort[1] \in SortableColumns

\* x is listed before y: by the selected column list, its first column
\* reversed when descending, else by (list_order, type, name, id)
ListedBefore(x, y) ==
    IF Sorted
    THEN LET kx == order_by_criterion(response.sort[1], x)
             ky == order_by_criterion(response.sort[1], y)
         IN  IF response.sort_asc THEN KeyLess(kx, ky)
             ELSE KeyLessDesc(kx, ky)
    ELSE KeyLess(default_order(x), default_order(y))

\* C20: the rows listed by index are exactly the resources whose name
\* contains the search text case-insensitively and whose type equals the
\* filter when one is given, in the default order or the order of the
\* selected column list: the i-th row of page p is the matching resource
\* that has exactly (p-1)*per_page + i - 1 matching resources before it
C20_FilterAndOrder ==
    Listed =>
        LET rows == response.resources
            first == (response.page - 1) * response.per_page
            rest == Cardinality(Matching) - first
        IN  /\ Len(rows) = Min(response.per_page, IF rest > 0 THEN rest ELSE 0)
            /\ \A i \in 1..Len(rows) :
                   /\ rows[i] \in Matching
                   /\ Cardinality({m \in Matching : ListedBefore(m, rows[i])})
                          = first + i - 1


(***************************************************************************)
(* Properties of the parent_id relation under the resource form            *)
(***************************************************************************)
\* the walk  root = resource; while root.parent is not None: root = parent
\* from the resource id comes to its end within fuel steps
RECURSIVE UpwardWalkEnds(_, _)
UpwardWalkEnds(id, fuel) ==
    IF id = None \/ id \notin Ids(resources) THEN TRUE
    ELSE IF fuel = 0 THEN FALSE
    ELSE UpwardWalkEnds(find_resource(id, resources).parent_id, fuel - 1)

\* C21: after any sequence of create and update operations through
\* create_or_update_resources the parent_id relation is acyclic: the upward
\* walk of hierarchy ends for every existing resource (a walk that ends
\* passes each resource at most once), and no hierarchy request runs
\* without end
C21_ParentRelationAcyclic ==
    /\ \A r \in resources : UpwardWalkEnds(r.id, Cardinality(resources))
    /\ response.op = "hierarchy" => response.status # 0


(***************************************************************************)
(* The fields of a theme item: create_form fills the edit form from an     *)
(* item, create_or_update_theme builds the item from the form.  An item    *)
(* is a function from its keys to values, the form is a record of the      *)
(* data of its fields; a value carries its Python type.                    *)
(***************************************************************************)
PyNone == [t |-> "None", v |-> <<>>]
PyStr(s) == [t |-> "str", v |-> s]
PyInt(n) == [t |-> "int", v |-> n]
PyBool(b) == [t |-> "bool", v |-> b]
PyList(l) == [t |-> "list", v |-> l]
PyDict(d) == [t |-> "dict", v |-> d]

\* the truth value of  if value:
truthy(x) ==
    CASE x.t = "None" -> FALSE
      [] x.t = "str" -> x.v # <<>>
      [] x.t = "int" -> x.v # 0
      [] x.t = "bool" -> x.v
      [] x.t = "list" -> x.v # <<>>
      [] x.t = "dict" -> DOMAIN x.v # {}

\* the characters ',' and ' ' and the digit '0'
Comma == 44
Space == 32
Zero == 48

\* str(n) of a number n >= 0: its decimal digits
RECURSIVE digits(_)
digits(n) ==
    IF n < 10 THEN <<Zero + n>> ELSE Append(digits(n \div 10), Zero + (n % 10))

\* str(value) of a string or a number
str(x) == IF x.t = "int" THEN digits(x.v) ELSE x.v

\* int(s) of a string: s is a string of digits, else ValueError
is_int(s) == s # <<>> /\ \A i \in 1..Len(s) : s[i] \in Zero..(Zero + 9)
RECURSIVE int(_)
int(s) ==
    IF s = <<>> THEN 0
    ELSE 10 * int(SubSeq(s, 1, Len(s) - 1)) + (s[Len(s)] - Zero)

\* ", ".join(strings)
RECURSIVE join(_)
join(strings) ==
    IF strings = <<>> THEN <<>>
    ELSE IF Len(strings) = 1 THEN strings[1]
    ELSE strings[1] \o <<Comma, Space>> \o join(Tail(strings))

\* s.replace(" ", "")
RECURSIVE replace(_)
replace(s) ==
    IF s = <<>> THEN <<>>
    ELSE IF s[1] = Space THEN replace(Tail(s))
    ELSE <<s[1]>> \o replace(Tail(s))

\* s.split(","): the strings between the commas, empty ones included
RECURSIVE split(_)
split(s) ==
    IF \A i \in 1..Len(s) : s[i] # Comma THEN <<s>>
    ELSE LET c == CHOOSE i \in 1..Len(s) :
                      s[i] = Comma /\ \A j \in 1..(i - 1) : s[j] # Comma
         IN  <<SubSeq(s, 1, c - 1)>> \o split(SubSeq(s, c + 1, Len(s)))

\* the elements map() takes from a value: the elements of a list, the
\* characters of a string
elements(x) ==
    IF x.t = "str" THEN [i \in 1..Len(x.v) |-> PyStr(<<x.v[i]>>)] ELSE x.v

\* ", ".join(map(str, value)) as the data of a text field
joined(x) ==
    PyStr(join([i \in 1..Len(elements(x)) |-> str(elements(x)[i])]))

\* ThemeForm(url=...): the data of the fields of a form that is not filled
ThemeForm(url) ==
    [url |-> url, title |-> PyNone, thumbnail |-> PyNone,
     attribution |-> PyNone, attributionUrl |-> PyNone, format |-> PyNone,
     mapCrs |-> PyNone, additionalMouseCrs |-> PyNone, scales |-> PyNone,
     printScales |-> PyNone, printResolutions |-> PyNone,
     searchProviders |-> PyNone, collapseLayerGroupsBelowLevel |-> PyNone,
     default |-> PyBool(FALSE), tiled |-> PyBool(FALSE),
     skipEmptyFeatureAttributes |-> PyBool(FALSE),
     backgroundLayers |-> PyList(<<>>)]

\* the entry of form.backgroundLayers for a layer of the item
background_entry(layer) ==
    [lname |-> layer["name"],
     printLayer |-> IF "printLayer" \in DOMAIN layer THEN layer["printLayer"]
                    ELSE PyStr(<<>>),
     visibility |-> IF "visibility" \in DOMAIN layer THEN layer["visibility"]
                    ELSE PyBool(FALSE)]


\* the value of the key of the item, else the data the field has unfilled
copied(theme, key, unfilled) ==
    IF key \in DOMAIN theme THEN theme[key] ELSE unfilled

\* the list of the key of the item joined to a text, else None
joined_key(theme, key) ==
    IF key \in DOMAIN theme THEN joined(theme[key]) ELSE PyNone

\* create_form(theme): the form filled from the item, in the order of the
\* assignments of the code: form.attribution gets the item's attribution
\* and then its attributionUrl, form.skipEmptyFeatureAttributes gets
\* collapseLayerGroupsBelowLevel and then skipEmptyFeatureAttributes; no
\* assignment fills form.attributionUrl or
\* form.collapseLayerGroupsBelowLevel
create_form(theme) ==
    LET form == ThemeForm(theme["url"]) IN
    [form EXCEPT
        !.title = copied(theme, "title", @),
        !.thumbnail = copied(theme, "thumbnail", @),
        !.attribution =
            copied(theme, "attributionUrl", copied(theme, "attribution", @)),
        !.default = copied(theme, "default", @),
        !.format = copied(theme, "format", @),
        !.mapCrs = copied(theme, "mapCrs", @),
        !.additionalMouseCrs = joined_key(theme, "additionalMouseCrs"),
        !.scales = joined_key(theme, "scales"),
        !.printScales = joined_key(theme, "printScales"),
        !.printResolutions = joined_key(theme, "printResolutions"),
        !.skipEmptyFeatureAttributes =
            copied(theme, "skipEmptyFeatureAttributes",
                   copied(theme, "collapseLayerGroupsBelowLevel", @)),
        !.searchProviders = joined_key(theme, "searchProviders"),
        !.backgroundLayers =
            IF "backgroundLayers" \in DOMAIN theme
            THEN LET layers == theme["backgroundLayers"].v
                 IN  PyList([i \in 1..Len(layers) |->
                                 PyDict(background_entry(layers[i].v))])
            ELSE @]

\* text.replace(" ", "").split(",")
parts(text) == split(replace(text.v))

\* list(map(int, parts)) and list(map(str, parts))
int_list(text) ==
    PyList([i \in 1..Len(parts(text)) |-> PyInt(int(parts(text)[i]))])
str_list(text) ==
    PyList([i \in 1..Len(parts(text)) |-> PyStr(parts(text)[i])])

\* int() takes every part of the text of the field
ints_ok(text) ==
    truthy(text) => \A i \in 1..Len(parts(text)) : is_int(parts(text)[i])

\* no ValueError in create_or_update_theme
item_ok(form) ==
    ints_ok(form.scales) /\ ints_ok(form.printScales)
      /\ ints_ok(form.printResolutions)

\* the key with the value when the condition holds, else no key
key_if(condition, key, value) == IF condition THEN key :> value ELSE <<>>

\* the layer of the item for an entry of form.backgroundLayers
background_layer(entry) ==
    [name |-> entry.lname, printLayer |-> entry.printLayer,
     visibility |-> entry.visibility]

\* create_or_update_theme: the item built from the data of the form
create_or_update_theme_item(form) ==
    ("url" :> form.url)
      @@ key_if(truthy(form.title), "title", form.title)
      @@ key_if(truthy(form.thumbnail), "thumbnail", form.thumbnail)
      @@ ("attribution" :> IF truthy(form.attribution) THEN form.attribution
                           ELSE PyStr(<<>>))
      @@ key_if(truthy(form.attributionUrl), "attributionUrl",
                form.attributionUrl)
      @@ ("default" :> PyBool(truthy(form.default)))
      @@ key_if(truthy(form.format), "format", form.format)
      @@ key_if(truthy(form.mapCrs), "mapCrs", form.mapCrs)
      @@ key_if(truthy(form.additionalMouseCrs), "additionalMouseCrs",
                form.additionalMouseCrs)
      @@ key_if(truthy(form.scales), "scales", int_list(form.scales))
      @@ key_if(truthy(form.printScales), "printScales",
                int_list(form.printScales))
      @@ key_if(truthy(form.printResolutions), "printResolutions",
                int_list(form.printResolutions))
      @@ ("skipEmptyFeatureAttributes" :>
              PyBool(truthy(form.skipEmptyFeatureAttributes)))
      @@ key_if(truthy(form.collapseLayerGroupsBelowLevel),
                "collapseLayerGroupsBelowLevel",
                form.collapseLayerGroupsBelowLevel)
      @@ ("searchProviders" :> IF truthy(form.searchProviders)
                               THEN str_list(form.searchProviders)
                               ELSE PyList(<<>>))
      @@ ("backgroundLayers" :>
              LET entries == form.backgroundLayers.v
              IN  PyList([i \in 1..Len(entries) |->
                              PyDict(background_layer(entries[i].v))]))


\* GET of the edit form of the theme at tid of themes.items: the form
\* shown is the form filled from the item
edit_theme_fields(tid) ==
    LET theme == find_theme(themesconfig, tid, <<>>) IN
    /\ response' =
           IF theme = <<>>
           THEN [op |-> "edit_theme_fields", status |-> 404, tid |-> tid]
           ELSE [op |-> "edit_theme_fields", status |-> 200, tid |-> tid,
                 form |-> create_form(theme[1])]
    /\ UNCHANGED <<resources, next_id, permissions, resource_types,
                   themesconfig, idle_themesconfig, themesfile>>

\* POST of the edit form of the theme at tid of themes.items with the data
\* of the form: the item is replaced by the item built from the form, the
\* resource named like the old url is renamed and the file is saved
update_theme_fields(tid, form, db_ok) ==
    LET theme == find_theme(themesconfig, tid, <<>>) IN
    /\ UNCHANGED <<next_id, permissions, resource_types>>
    /\ IF theme = <<>> THEN
           /\ response' = [op |-> "update_theme_fields", status |-> 404,
                           tid |-> tid]
           /\ UNCHANGED <<resources, themesconfig, themesfile>>
       ELSE IF ~truthy(form.url) THEN
           \* validate_on_submit: url is required
           /\ response' = [op |-> "update_theme_fields", status |-> 200,
                           tid |-> tid]
           /\ UNCHANGED <<resources, themesconfig, themesfile>>
       ELSE IF ~item_ok(form) THEN
           \* ValueError
           /\ response' = [op |-> "update_theme_fields", status |-> 500,
                           tid |-> tid]
           /\ UNCHANGED <<resources, themesconfig, themesfile>>
       ELSE
           /\ themesconfig' =
                  [themesconfig EXCEPT
                      !.items = put(@, tid, create_or_update_theme_item(form))]
           /\ \E found \in first_named(basename(theme[1]["url"].v),
                                       resources) :
                  resources' =
                      IF found # <<>> /\ db_ok
                      THEN (resources \ {found[1]})
                             \cup {[found[1] EXCEPT
                                       !.name = basename(form.url.v)]}
                      ELSE resources
           /\ save_themesconfig(themesconfig')
           /\ response' = [op |-> "update_theme_fields", status |-> 302,
                           tid |-> tid, theme |-> theme[1], form |-> form,
                           item |-> create_or_update_theme_item(form)]
    /\ UNCHANGED idle_themesconfig

(***************************************************************************)
(* Specification of the edit form: themes.items holds one item with some   *)
(* of the keys the form handles, the form shown is posted as it is         *)
(***************************************************************************)
\* longest list of an item, largest scale and largest level of
\* collapseLayerGroupsBelowLevel
MaxListLen == 2
MaxScale == 10
MaxLevel == 1

\* longest text of an item whose edit form is shown: a list stored as its
\* joined text grows with every further edit
MaxText == 4

\* no key, or the key with one of the values
Optional(key, values) == {<<>>} \cup {key :> v : v \in values}

\* the lists of numbers MaxScale, MaxScale / 2, ... and of the names "c",
\* "d", ... of at most MaxListLen elements
ScaleLists ==
    {PyList([i \in 1..n |-> PyInt(MaxScale \div i)]) : n \in 1..MaxListLen}
NameLists ==
    {PyList([i \in 1..n |-> PyStr(<<98 + i>>)]) : n \in 1..MaxListLen}

\* title, or title, thumbnail, format, mapCrs and default
PlainKeys ==
    {<<>>, "title" :> PyStr(<<116>>),
     [title |-> PyStr(<<116>>), thumbnail |-> PyStr(<<105>>),
      format |-> PyStr(<<102>>), mapCrs |-> PyStr(<<109>>),
      default |-> PyBool(TRUE)]}

\* scales, printScales and printResolutions
ScaleKeys ==
    {<<>>} \cup {[scales |-> l, printScales |-> l, printResolutions |-> l] :
                     l \in ScaleLists}

\* a layer with its name, and a layer with all its keys
LayerLists ==
    {PyList(<<PyDict([name |-> PyStr(<<103>>)])>>),
     PyList(<<PyDict([name |-> PyStr(<<103>>), printLayer |-> PyStr(<<112>>),
                      visibility |-> PyBool(TRUE)])>>)}

EditItems ==
    {("url" :> PyStr(<<97>>)) @@ plain @@ attribution @@ attributionUrl
        @@ crs @@ scales @@ level @@ skip @@ providers @@ layers :
        plain \in PlainKeys,
        attribution \in Optional("attribution", {PyStr(<<120>>)}),
        attributionUrl \in Optional("attributionUrl", {PyStr(<<121>>)}),
        crs \in Optional("additionalMouseCrs", NameLists),
        scales \in ScaleKeys,
        level \in Optional("collapseLayerGroupsBelowLevel",
                           {PyInt(n) : n \in 1..MaxLevel}),
        skip \in Optional("skipEmptyFeatureAttributes",
                          {PyBool(FALSE), PyBool(TRUE)}),
        providers \in Optional("searchProviders", NameLists),
        layers \in Optional("backgroundLayers", LayerLists)}

InitForm ==
    /\ resources = {}
    /\ next_id = 1
    /\ permissions = {}
    /\ resource_types = [t \in TypeNames |-> IF t = "map" THEN 1 ELSE 2]
    /\ \E theme \in EditItems :
           themesconfig = [items |-> <<theme>>, groups |-> <<>>]
    /\ themesfile = themesconfig
    /\ response = [op |-> "none"]
    /\ idle_themesconfig = themesconfig

\* the edit form is shown and the form shown is posted
NextForm ==
    \/ \E tid \in 0..(MaxItems - 1) :
           /\ \A theme \in set(themesconfig.items) :
                  \A k \in DOMAIN theme :
                      theme[k].t = "str" => Len(theme[k].v) <= MaxText
           /\ edit_theme_fields(tid)
    \/ \E db_ok \in BOOLEAN :
           /\ response.op = "edit_theme_fields"
           /\ response.status = 200
           /\ update_theme_fields(response.tid, response.form, db_ok)

SpecForm == InitForm /\ [][NextForm]_vars


(***************************************************************************)
(* Properties of the edit form                                             *)
(***************************************************************************)
\* the keys of an item the form handles
HandledKeys ==
    {"url", "title", "thumbnail", "attribution", "attributionUrl", "default",
     "format", "mapCrs", "additionalMouseCrs", "scales", "printScales",
     "printResolutions", "collapseLayerGroupsBelowLevel",
     "skipEmptyFeatureAttributes", "searchProviders", "backgroundLayers"}

\* the same value of the same type
SameValue(x, y) == x.t = y.t /\ x.v = y.v

\* the stored layers have the values of the keys of the layers of the item
SameLayers(old, new) ==
    /\ new.t = "list"
    /\ Len(new.v) = Len(old.v)
    /\ \A i \in 1..Len(old.v) :
           \A k \in DOMAIN old.v[i].v :
               /\ k \in DOMAIN new.v[i].v
               /\ SameValue(old.v[i].v[k], new.v[i].v[k])

\* every handled key of the item is a key of the stored item, with the
\* same value
SameFields(theme, item) ==
    \A k \in HandledKeys \cap DOMAIN theme :
        /\ k \in DOMAIN item
        /\ IF k = "backgroundLayers" THEN SameLayers(theme[k], item[k])
           ELSE SameValue(theme[k], item[k])

\* the edit form of the item was posted as it was shown
PostedUnchanged ==
    /\ response.op = "update_theme_fields"
    /\ response.status = 302
    /\ response.form = create_form(response.theme)

\* C22: for every theme item, the form filled from the item by create_form
\* and posted unchanged stores, through create_or_update_theme, an item
\* with the same values for the keys the form handles: attribution and
\* attributionUrl, collapseLayerGroupsBelowLevel and
\* skipEmptyFeatureAttributes keep their values, and the lists are stored
\* as the same lists
C22_EditRoundTrip ==
    PostedUnchanged =>
        /\ SameFields(response.theme, response.item)
        /\ themesconfig.items[response.tid + 1] = response.item

====
